---- MODULE Spec2Model ----
(***************************************************************************)
(* Model of the decompress crate: the entry path model (rel_path.rs), the  *)
(* shared tar extraction engine (tar_common.rs), the rar adapter           *)
(* (unrar.rs), the hook descriptor (map_args.rs) and the decompressor      *)
(* registry.  Paths are modelled as Unix paths: a path is a sequence of    *)
(* one-character strings, parsed into components the way std::path does.   *)
(***************************************************************************)
EXTENDS Integers, Sequences, FiniteSets, TLC

(***************************************************************************)
(* Bounds of the model.                                                    *)
(***************************************************************************)
MaxPathLen == 3
MaxEntries == 2
MaxStrip == 1

Alphabet == {"/", ".", "a"}

RECURSIVE StringsOfLen(_)
StringsOfLen(n) ==
  IF n = 0 THEN {<<>>}
  ELSE {Append(s, c) : s \in StringsOfLen(n - 1), c \in Alphabet}

\* Names with a backslash, which is no separator on Unix: `a\a`, `..\a`,
\* `\a`, `a/\`, `\..`.
BackslashNames ==
  {<<"a", "\\", "a">>, <<".", ".", "\\", "a">>, <<"\\", "a">>,
   <<"a", "/", "\\">>, <<"\\", ".", ".">>}

\* The names of the script of the test archives: `ex.sh`, `a/ex.sh`.
ScriptNames ==
  {<<"e", "x", ".", "s", "h">>, <<"a", "/", "e", "x", ".", "s", "h">>}

\* Every path string an archive header may carry: all the strings of up to
\* MaxPathLen characters, the names with a backslash and the script names.
Names ==
  UNION {StringsOfLen(n) : n \in 0..MaxPathLen} \cup BackslashNames \cup ScriptNames

\* The names of the entries of an archive with several entries: ``, `a`,
\* `a.`, `a/a`, `/a`, `..` and the script names.
SeqNames ==
  {<<>>, <<"a">>, <<"a", ".">>, <<"a", "/", "a">>, <<"/", "a">>, <<".", ".">>}
    \cup ScriptNames

\* The link names a symlink entry may carry: none (empty), `.`, `..`, `a`
\* and `b`.
LinkNames == {<<>>, <<".">>, <<".", ".">>, <<"a">>, <<"b">>}

(***************************************************************************)
(* rel_path.rs constants.                                                  *)
(***************************************************************************)
PART_SEPARATOR == "/"
PART_SEPARATOR_STR == <<"/">>
MAIN_SEPARATOR == "/"

(***************************************************************************)
(* std::path on Unix.                                                      *)
(***************************************************************************)
RootDir == <<"/">>
CurDir == <<".">>
ParentDir == <<".", ".">>

IsNormal(c) == c /= <<>> /\ c /= RootDir /\ c /= CurDir /\ c /= ParentDir

\* The pieces of s between separators, empty pieces included.
RECURSIVE SplitFrom(_, _, _, _)
SplitFrom(s, i, cur, acc) ==
  IF i > Len(s) THEN Append(acc, cur)
  ELSE IF s[i] = "/" THEN SplitFrom(s, i + 1, <<>>, Append(acc, cur))
  ELSE SplitFrom(s, i + 1, Append(cur, s[i]), acc)

Split(s) == SplitFrom(s, 1, <<>>, <<>>)

HasRoot(s) == Len(s) > 0 /\ s[1] = "/"

IsAbsolute(s) == HasRoot(s)

IsRelative(s) == ~IsAbsolute(s)

\* Path::components: a root, a leading `.`, then the `..` and normal
\* components; empty pieces and inner `.` pieces are dropped.
Components(s) ==
  LET pieces == Split(s)
      cur == ~HasRoot(s) /\ pieces[1] = CurDir
      rest == IF cur THEN Tail(pieces) ELSE pieces
      kept == SelectSeq(rest, LAMBDA p : p /= <<>> /\ p /= CurDir)
  IN (IF HasRoot(s) THEN <<RootDir>> ELSE <<>>)
       \o (IF cur THEN <<CurDir>> ELSE <<>>) \o kept

\* PathBuf::push.
Push(buf, p) ==
  IF IsAbsolute(p) THEN p
  ELSE IF buf /= <<>> /\ buf[Len(buf)] /= "/" THEN buf \o <<"/">> \o p
  ELSE buf \o p

\* Path::join.
Join(base, p) == Push(base, p)

\* PathBuf::from_iter over components.
RECURSIVE CollectFrom(_, _, _)
CollectFrom(comps, i, buf) ==
  IF i > Len(comps) THEN buf ELSE CollectFrom(comps, i + 1, Push(buf, comps[i]))

Collect(comps) == CollectFrom(comps, 1, <<>>)

\* skip that skips nothing.
SkipNone(comps, k) == comps

\* Iterator::skip.
Skip(comps, k) == SubSeq(comps, k + 1, Len(comps))

\* Path equality compares components.
PathEq(p, q) == Components(p) = Components(q)

\* Path::parent; <<"none">> stands for None.
NoPath == <<"none">>

Parent(p) ==
  LET cs == Components(p)
  IN IF cs = <<>> \/ cs[Len(cs)] = RootDir THEN NoPath
     ELSE Collect(SubSeq(cs, 1, Len(cs) - 1))

\* Path::file_name; <<"none">> stands for None.
FileName(p) ==
  LET cs == Components(p)
  IN IF cs /= <<>> /\ IsNormal(cs[Len(cs)]) THEN cs[Len(cs)] ELSE NoPath

\* str::ends_with.
EndsWith(s, suf) ==
  Len(suf) <= Len(s) /\ SubSeq(s, Len(s) - Len(suf) + 1, Len(s)) = suf

\* The process's current directory.
Cwd == <<"/", "a">>

\* path_absolutize::Absolutize on Unix: resolve `.` and `..` lexically,
\* against the current directory when the path is relative.
RECURSIVE Resolve(_, _, _)
Resolve(cs, i, acc) ==
  IF i > Len(cs) THEN acc
  ELSE IF cs[i] = ParentDir
    THEN Resolve(cs, i + 1, IF Len(acc) > 1 THEN SubSeq(acc, 1, Len(acc) - 1) ELSE acc)
  ELSE IF cs[i] = CurDir \/ cs[i] = RootDir THEN Resolve(cs, i + 1, acc)
  ELSE Resolve(cs, i + 1, Append(acc, cs[i]))

\* The path is returned as it is, relative or not.
AbsolutizeNot(p) == p

Absolutize(p) ==
  Collect(Resolve(Components(p), 1,
                  IF HasRoot(p) THEN <<RootDir>> ELSE Components(Cwd)))

(***************************************************************************)
(* rel_path.rs: RelPath.                                                   *)
(***************************************************************************)
RelPathKind == {"File", "Directory"}

RelOk(kind, parts, value) ==
  [tag |-> "Ok", kind |-> kind, parts |-> parts, value |-> value, err |-> "none"]

RelErr(e) ==
  [tag |-> "Err", kind |-> "none", parts |-> <<>>, value |-> <<>>, err |-> e]

\* The panic of unreachable!().
RelPanic ==
  [tag |-> "Panic", kind |-> "none", parts |-> <<>>, value |-> <<>>, err |-> "unreachable"]

\* [String]::join.
RECURSIVE JoinStrFrom(_, _, _, _)
JoinStrFrom(parts, sep, i, acc) ==
  IF i > Len(parts) THEN acc
  ELSE JoinStrFrom(parts, sep, i + 1,
                   IF i = 1 THEN parts[i] ELSE acc \o sep \o parts[i])

JoinStr(parts, sep) == JoinStrFrom(parts, sep, 1, <<>>)

\* RelPath::get_parts: Ok(parts), Err(PathNotRelative) or the panic.
get_parts(path) ==
  IF ~IsRelative(path) THEN RelErr("PathNotRelative")
  ELSE LET cs == Components(path)
       IN IF \E i \in 1..Len(cs) : ~IsNormal(cs[i]) THEN RelPanic
          ELSE RelOk("none", cs, <<>>)

\* RelPath::new.
new(kind, path) ==
  LET r == get_parts(path)
  IN IF r.tag = "Ok" THEN RelOk(kind, r.parts, JoinStr(r.parts, PART_SEPARATOR_STR))
     ELSE r

\* RelPath::guess_kind.
guess_kind(path) ==
  IF EndsWith(path, <<MAIN_SEPARATOR>>) \/ EndsWith(path, <<PART_SEPARATOR>>)
  THEN "Directory" ELSE "File"

new_guess_kind(path) == new(guess_kind(path), path)

new_directory(path) == new("Directory", path)

new_file(path) == new("File", path)

\* RelPath::join_onto: PathBuf::extend with the parts.
join_onto(rel, base) == CollectFrom(rel.parts, 1, base)

(***************************************************************************)
(* State.                                                                  *)
(***************************************************************************)
VARIABLES
  shape,       \* the archive: "one" entry of any name, or "many" entries
  engine,      \* which adapter runs: "tar" (tar_extract) or "rar" (Unrar::decompress)
  to,          \* the output directory argument
  opts,        \* ExtractOpts: [strip, filter, map]
  pc,          \* "start", "run", "ok" (returned Ok), "err" (returned Err), "panic"
  err,         \* the error returned, or the panic raised
  output_dir,  \* to.absolutize()
  n,           \* entries read from the archive so far
  files,       \* the list the call returns
  fs,          \* the filesystem: [dirs, regs, links]; dirs and regs are sets of
               \* absolute paths, links a set of [path, name] (name: where it leads)
  created,     \* the paths File::create succeeded on, in order
  last,        \* what the call did for the entry it read last
  rp,          \* SpecRel: the RelPath constructor call and its result
  sel          \* SpecReg: the registry's decompress call and its result

vars == <<shape, engine, to, opts, pc, err, output_dir, n, files, fs, created, last, rp, sel>>

EntryTypes == {"Directory", "Regular", "Symlink", "Other"}

RarTypes == {"Directory", "Regular"}

OutDirs == {<<"a">>, <<"/", "a">>}

(***************************************************************************)
(* ExtractOpts hooks.                                                      *)
(***************************************************************************)
\* The suffix the filter of test_filter keeps.
FilterSuffix == <<"e", "x", ".", "s", "h">>

\* The prefix the map of test_map puts before the file name.
MapPrefix == <<"a", "b", "c", "-">>

\* ExtractOptsBuilder's default filter keeps every entry.
DefaultFilter(args) == TRUE

\* The filter closure of test_filter.
TestFilter(args) == EndsWith(args.path, FilterSuffix)

\* ExtractOptsBuilder's default map is the identity on the output path.
DefaultMap(args) == args.path

\* PathBuf::set_file_name.
SetFileName(p, name) ==
  Push(IF FileName(p) /= NoPath THEN Parent(p) ELSE p, name)

\* The map closure of test_map.
TestMap(args) == SetFileName(args.path, MapPrefix \o FileName(args.path))

Filters == {"default", "ends_with"}

Maps == {"default", "set_file_name"}

\* (opts.filter)(&filter_args)
ApplyFilter(args) ==
  IF opts.filter = "default" THEN DefaultFilter(args) ELSE TestFilter(args)

\* (opts.map)(&map_args)
ApplyMap(args) ==
  IF opts.map = "default" THEN DefaultMap(args) ELSE TestMap(args)

\* FilterArgs::new.
FilterArgsNew(rel_path, path, dir) ==
  [rel_path |-> rel_path, path |-> path, output_dir |-> dir]

\* MapArgs::new; ok is the conjunction of its two assertions.
MapArgsNew(rel_path, path, dir) ==
  [ok |-> IsAbsolute(path) /\ IsAbsolute(dir),
   rel_path |-> rel_path, path |-> path, output_dir |-> dir]

(***************************************************************************)
(* The filesystem calls.                                                   *)
(***************************************************************************)
Norm(p) == Collect(Components(p))

AncestorsOrSelf(p) ==
  LET cs == Components(p) IN {Collect(SubSeq(cs, 1, i)) : i \in 1..Len(cs)}

\* The element of a set of one element.  An operator below takes the result
\* of a call it uses more than once as `x \in {call}`, so that it is
\* computed once.
The(S) == CHOOSE x \in S : TRUE

\* What is at the absolute path p itself.
Kind(f, p) ==
  IF p \in f.dirs THEN "dir"
  ELSE IF p \in f.regs THEN "reg"
  ELSE IF \E l \in f.links : l.path = p THEN "link"
  ELSE "missing"

\* readlink.
LinkName(f, p) == (CHOOSE l \in f.links : l.path = p).name

\* The kernel's path walk from the directory cur (a sequence of components)
\* along the components rest.  A symlink on the way is followed, the last
\* component only if follow; hops bounds the links followed (ELOOP).
\* st is "ok" (path is the place reached and kind what is there, "missing"
\* when only its directory exists), "noent", "notdir" or "loop".
RECURSIVE Walk(_, _, _, _, _)
Walk(f, cur, rest, follow, hops) ==
  IF rest = <<>> THEN [st |-> "ok", path |-> Collect(cur), kind |-> "dir"]
  ELSE IF Head(rest) = RootDir THEN Walk(f, <<RootDir>>, Tail(rest), follow, hops)
  ELSE IF Head(rest) = CurDir THEN Walk(f, cur, Tail(rest), follow, hops)
  ELSE IF Head(rest) = ParentDir
    THEN Walk(f, IF Len(cur) > 1 THEN SubSeq(cur, 1, Len(cur) - 1) ELSE cur,
              Tail(rest), follow, hops)
  ELSE The({The({
         IF k = "link" /\ (Len(rest) > 1 \/ follow)
           THEN IF hops = 0 THEN [st |-> "loop", path |-> cand, kind |-> k]
                ELSE Walk(f, cur, Components(LinkName(f, cand)) \o Tail(rest),
                          follow, hops - 1)
         ELSE IF Len(rest) = 1 THEN [st |-> "ok", path |-> cand, kind |-> k]
         ELSE IF k = "dir" THEN Walk(f, Append(cur, Head(rest)), Tail(rest), follow, hops)
         ELSE [st |-> IF k = "reg" THEN "notdir" ELSE "noent", path |-> cand, kind |-> k]
         : k \in {Kind(f, cand)}})
       : cand \in {Collect(Append(cur, Head(rest)))}})

\* stat (follow) and lstat of p, taken from the current directory.
Stat(f, p, follow) ==
  Walk(f, Components(Cwd), Components(p), follow,
       (Cardinality(f.links) + 1) * (Len(Components(p)) + 1))

\* Path::exists.
Exists(f, p) ==
  \E r \in {Stat(f, p, TRUE)} : r.st = "ok" /\ r.kind \in {"dir", "reg"}

\* Path::is_dir.
IsDir(f, p) ==
  \E r \in {Stat(f, p, TRUE)} : r.st = "ok" /\ r.kind = "dir"

\* mkdir; notfound tells the error is ErrorKind::NotFound.
mkdir(f, p) ==
  The({IF r.st /= "ok"
         THEN [ok |-> FALSE, notfound |-> r.st = "noent", fs |-> f, made |-> {}]
       ELSE IF r.kind /= "missing"
         THEN [ok |-> FALSE, notfound |-> FALSE, fs |-> f, made |-> {}]
       ELSE [ok |-> TRUE, notfound |-> FALSE,
             fs |-> [f EXCEPT !.dirs = @ \cup {r.path}], made |-> {r.path}]
       : r \in {Stat(f, p, FALSE)}})

\* fs::create_dir_all; made is the set of the directories it made.
RECURSIVE create_dir_all(_, _)
create_dir_all(f, p) ==
  IF p = <<>> THEN [ok |-> TRUE, fs |-> f, made |-> {}]
  ELSE The({
    IF m.ok THEN [ok |-> TRUE, fs |-> m.fs, made |-> m.made]
    ELSE IF ~m.notfound THEN [ok |-> IsDir(f, p), fs |-> f, made |-> {}]
    ELSE IF Parent(p) = NoPath THEN [ok |-> FALSE, fs |-> f, made |-> {}]
    ELSE The({
      IF ~up.ok THEN up
      ELSE The({
        IF m2.ok THEN [ok |-> TRUE, fs |-> m2.fs, made |-> up.made \cup m2.made]
        ELSE [ok |-> IsDir(up.fs, p), fs |-> up.fs, made |-> up.made]
        : m2 \in {mkdir(up.fs, p)}})
      : up \in {create_dir_all(f, Parent(p))}})
    : m \in {mkdir(f, p)}})

\* A path that ends in a separator, or in a separator and a dot, names a
\* directory: no file can be opened there.
NamesDirectory(p) == EndsWith(p, <<"/">>) \/ EndsWith(p, <<"/", ".">>)

\* fs::File::create: made is the path it was called on, at the place where
\* the file is.
FileCreate(f, p) ==
  The({IF NamesDirectory(p) \/ r.st /= "ok" \/ r.kind \notin {"reg", "missing"}
         THEN [ok |-> FALSE, fs |-> f, made |-> <<>>, at |-> {}]
       ELSE [ok |-> TRUE, fs |-> [f EXCEPT !.regs = @ \cup {r.path}],
             made |-> <<p>>, at |-> {r.path}]
       : r \in {Stat(f, p, TRUE)}})

\* symlink(name, p); exists tells the error is ErrorKind::AlreadyExists.
symlink(f, p, name) ==
  The({IF r.st /= "ok" THEN [ok |-> FALSE, exists |-> FALSE, fs |-> f, at |-> {}]
       ELSE IF r.kind /= "missing"
         THEN [ok |-> FALSE, exists |-> TRUE, fs |-> f, at |-> {}]
       ELSE [ok |-> TRUE, exists |-> FALSE,
             fs |-> [f EXCEPT !.links = @ \cup {[path |-> r.path, name |-> name]}],
             at |-> {r.path}]
       : r \in {Stat(f, p, FALSE)}})

\* fs::remove_file.
remove_file(f, p) ==
  The({IF r.st /= "ok" \/ r.kind \notin {"reg", "link"} THEN [ok |-> FALSE, fs |-> f]
       ELSE [ok |-> TRUE,
             fs |-> [f EXCEPT !.regs = @ \ {r.path},
                              !.links = {l \in @ : l.path /= r.path}]]
       : r \in {Stat(f, p, FALSE)}})

\* tar::Entry::unpack of a symlink entry with this link name: an empty link
\* name is an error; what is at the path already is removed and the link is
\* made again.
UnpackSymlink(f, p, name) ==
  IF name = <<>> THEN [ok |-> FALSE, fs |-> f, at |-> {}]
  ELSE The({
    IF s.ok \/ ~s.exists THEN [ok |-> s.ok, fs |-> s.fs, at |-> s.at]
    ELSE The({
      IF ~rm.ok THEN [ok |-> FALSE, fs |-> f, at |-> {}]
      ELSE The({[ok |-> s2.ok, fs |-> s2.fs, at |-> s2.at]
                : s2 \in {symlink(rm.fs, p, name)}})
      : rm \in {remove_file(f, p)}})
    : s \in {symlink(f, p, name)}})

\* `if let Some(p) = outpath.parent() { if !p.exists() { fs::create_dir_all(p)? } }`
EnsureParent(f, outpath) ==
  LET p == Parent(outpath)
  IN IF p /= NoPath /\ ~Exists(f, p)
     THEN [called |-> TRUE] @@ create_dir_all(f, p)
     ELSE [called |-> FALSE, ok |-> TRUE, fs |-> f, made |-> {}]

(***************************************************************************)
(* What a call did for one entry.                                          *)
(*   outcome: "skipped"  the stripped path is the output directory itself  *)
(*            "error"    RelPath construction returned Err                 *)
(*            "panic"    a panic unwound the call                          *)
(*            "filtered" opts.filter returned false                        *)
(*            "dir", "file", "symlink"  the entry was extracted            *)
(*            "io"       a filesystem call failed                          *)
(*   calls:   the hooks called for the entry and the filesystem calls    *)
(*            that create or write for it, in order; set_permissions is   *)
(*            listed when it failed                                        *)
(*   wrote:   the places created or written for the entry                  *)
(***************************************************************************)
NoEntry ==
  [path |-> NoPath, typ |-> "none", outcome |-> "none", filepath |-> NoPath,
   output_path |-> NoPath, outpath |-> NoPath, calls |-> <<>>, wrote |-> {}]

Step(p, e, fl, f, cr, l) ==
  [pc |-> p, err |-> e, files |-> fl, fs |-> f, created |-> cr, last |-> l]

\* `if to == outpath { continue; }`
StrippedAway(dir, outpath0) == PathEq(dir, outpath0)

\* The filter is asked about every entry, whatever its type.
FilterAskedAlways(is_directory, is_file) == TRUE

\* `if is_directory || is_file`: the entries opts.filter is asked about.
FilterAsked(is_directory, is_file) == is_directory \/ is_file

\* The filter's answer is ignored.
RejectedNever(asked, keep) == FALSE

\* `if !(opts.filter)(&filter_args) { continue; }`
Rejected(asked, keep) == asked /\ ~keep

\* The path is put at the front of the list.
PushFileFront(list, outpath) == <<outpath>> \o list

\* `files.push(outpath.to_string_lossy().to_string())`
PushFile(list, outpath) == Append(list, outpath)

\* One iteration of the loop of tar_extract, for an entry with this raw
\* path and type.  filepath, rel_path, output_path, map_args and outpath
\* are the values the iteration computes on its way:
\*   filepath     the path after components().skip(opts.strip)
\*   rel_path     RelPath::new_directory / new_file of filepath
\*   output_path  output_dir.join(&filepath)
\*   map_args     MapArgs::new(&rel_path, &output_path, &output_dir)
\*   outpath      (opts.map)(&map_args)
\* link_name is the link name of a symlink entry; data_ok tells whether the
\* data of a regular-file entry can be read to its end; perm_ok is false
\* when fs::set_permissions is called on the written file and fails.
tar_entry(path, typ, link_name, data_ok, perm_ok, filepath, rel_path, output_path, map_args, outpath) ==
  LET outpath0 == Join(to, filepath)
      is_directory == typ = "Directory"
      is_file == typ = "Regular"
      asked == FilterAsked(is_directory, is_file)
      keep == ApplyFilter(FilterArgsNew(rel_path, output_path, output_dir))
      e0 == [NoEntry EXCEPT !.path = path, !.typ = typ, !.filepath = filepath]
      e1 == [e0 EXCEPT !.output_path = output_path]
      e2 == [e1 EXCEPT !.calls = IF asked THEN <<"filter">> ELSE <<>>]
      e3 == [e2 EXCEPT !.calls = Append(@, "map"), !.outpath = outpath]
      call == IF typ = "Regular" THEN "File::create" ELSE "unpack"
  IN IF StrippedAway(to, outpath0)
       THEN Step("run", "none", files, fs, created, [e0 EXCEPT !.outcome = "skipped"])
     ELSE IF rel_path.tag = "Err"
       THEN Step("err", rel_path.err, files, fs, created, [e1 EXCEPT !.outcome = "error"])
     ELSE IF rel_path.tag = "Panic"
       THEN Step("panic", rel_path.err, files, fs, created, [e1 EXCEPT !.outcome = "panic"])
     ELSE IF Rejected(asked, keep)
       THEN Step("run", "none", files, fs, created, [e2 EXCEPT !.outcome = "filtered"])
     ELSE IF ~map_args.ok
       THEN Step("panic", "assert", files, fs, created, [e2 EXCEPT !.outcome = "panic"])
     ELSE IF typ = "Directory"
       THEN Step("run", "none", files, fs, created, [e3 EXCEPT !.outcome = "dir"])
     ELSE IF typ \notin {"Regular", "Symlink"}
       THEN Step("panic", "todo", files, fs, created, [e3 EXCEPT !.outcome = "panic"])
     ELSE The({The({
       LET e4 == [e3 EXCEPT !.calls = IF par.called THEN Append(@, "create_dir_all")
                                      ELSE @,
                            !.wrote = par.made]
       IN IF ~par.ok
            THEN Step("err", "Io", files, par.fs, created, [e4 EXCEPT !.outcome = "io"])
          ELSE IF ~w.ok
            THEN Step("err", "Io", files, w.fs, created,
                      [e4 EXCEPT !.outcome = "io", !.calls = Append(@, call)])
          ELSE IF typ = "Regular" /\ ~data_ok
            THEN Step("err", "Io", files, w.fs, created \o w.made,
                      [e4 EXCEPT !.outcome = "io",
                                 !.calls = Append(Append(@, call), "io::copy"),
                                 !.wrote = @ \cup w.at])
          ELSE IF typ = "Regular" /\ ~perm_ok
            THEN Step("err", "Io", PushFile(files, outpath), w.fs, created \o w.made,
                      [e4 EXCEPT !.outcome = "io",
                                 !.calls = Append(Append(Append(@, call), "io::copy"),
                                                  "set_permissions"),
                                 !.wrote = @ \cup w.at])
          ELSE IF typ = "Regular"
            THEN Step("run", "none", PushFile(files, outpath), w.fs, created \o w.made,
                      [e4 EXCEPT !.outcome = "file",
                                 !.calls = Append(Append(@, call), "io::copy"),
                                 !.wrote = @ \cup w.at])
          ELSE Step("run", "none", files, w.fs, created,
                    [e4 EXCEPT !.outcome = "symlink", !.calls = Append(@, call),
                               !.wrote = @ \cup w.at])
       : w \in {IF ~par.ok THEN par
                ELSE IF typ = "Regular" THEN FileCreate(par.fs, outpath)
                ELSE UnpackSymlink(par.fs, outpath, link_name)}})
       : par \in {EnsureParent(fs, outpath)}})

\* unrar's extract_to: writes the file, or makes the directory, at p,
\* making the missing directories above it.
ExtractTo(f, p, isdir) ==
  The({IF ~par.ok THEN [ok |-> FALSE, fs |-> par.fs, made |-> par.made]
       ELSE IF Kind(par.fs, Norm(p)) = (IF isdir THEN "reg" ELSE "dir")
         THEN [ok |-> FALSE, fs |-> par.fs, made |-> par.made]
       ELSE IF ~isdir /\ NamesDirectory(p)
         THEN [ok |-> FALSE, fs |-> par.fs, made |-> par.made]
       ELSE IF isdir
         THEN [ok |-> TRUE, fs |-> [par.fs EXCEPT !.dirs = @ \cup {Norm(p)}],
               made |-> par.made \cup {Norm(p)}]
       ELSE [ok |-> TRUE, fs |-> [par.fs EXCEPT !.regs = @ \cup {Norm(p)}],
             made |-> par.made \cup {Norm(p)}]
       : par \in {IF Parent(p) = NoPath THEN [ok |-> TRUE, fs |-> f, made |-> {}]
                   ELSE create_dir_all(f, Parent(p))}})

\* One iteration of the loop of Unrar::decompress, for a header with this
\* file name and type.  rel_path, full_output_path, map_args and
\* output_path are the values the iteration computes on its way.  The path
\* is pushed to the list before extract_to is called, so that it is in the
\* list also when extract_to fails.
rar_entry(filename, typ, rel_path, full_output_path, map_args, output_path) ==
  LET is_directory == typ = "Directory"
      is_file == ~is_directory
      output_path0 == Join(to, filename)
      keep == ApplyFilter(FilterArgsNew(rel_path, full_output_path, output_dir))
      e0 == [NoEntry EXCEPT !.path = filename, !.typ = typ, !.filepath = filename]
      e1 == [e0 EXCEPT !.output_path = full_output_path, !.calls = <<"filter">>]
      e2 == [e1 EXCEPT !.calls = Append(@, "map"), !.outpath = output_path]
      e3 == [e2 EXCEPT !.calls = Append(@, "extract_to")]
  IN IF ~(is_directory \/ is_file) \/ StrippedAway(to, output_path0)
       THEN Step("run", "none", files, fs, created, [e0 EXCEPT !.outcome = "skipped"])
     ELSE IF rel_path.tag = "Err"
       THEN Step("err", rel_path.err, files, fs, created, [e0 EXCEPT !.outcome = "error"])
     ELSE IF rel_path.tag = "Panic"
       THEN Step("panic", rel_path.err, files, fs, created, [e0 EXCEPT !.outcome = "panic"])
     ELSE IF Rejected(TRUE, keep)
       THEN Step("run", "none", files, fs, created, [e1 EXCEPT !.outcome = "filtered"])
     ELSE IF ~map_args.ok
       THEN Step("panic", "assert", files, fs, created, [e1 EXCEPT !.outcome = "panic"])
     ELSE The({
       IF ext.ok
         THEN Step("run", "none", PushFile(files, output_path), ext.fs, created,
                   [e3 EXCEPT !.outcome = IF is_directory THEN "dir" ELSE "file",
                              !.wrote = ext.made])
         ELSE Step("err", "Error", PushFile(files, output_path), ext.fs, created,
                   [e3 EXCEPT !.outcome = "io", !.wrote = ext.made])
       : ext \in {ExtractTo(fs, output_path, is_directory)}})

(***************************************************************************)
(* Actions.                                                                *)
(***************************************************************************)
InitFs == [dirs |-> AncestorsOrSelf(Cwd), regs |-> {}, links |-> {}]

\* The tree where `a` of the current directory is a link to nothing.
DanglingFs ==
  [InitFs EXCEPT !.links = {[path |-> Cwd \o <<"/", "a">>, name |-> <<"b">>]}]

\* The output directory argument and the tree the call meets: the
\* directory is absent and can be made (`a`), is there (`/a`), or is a
\* dangling link, which create_dir_all cannot make a directory of.
Starts == {<<t, InitFs>> : t \in OutDirs} \cup {<<<<"a">>, DanglingFs>>}

NoSelect ==
  [registry |-> <<>>, archive |-> <<>>, detect_content |-> FALSE, mime |-> "none",
   result |-> "none"]

NoCall == [ctor |-> "none", path |-> NoPath, result |-> RelErr("none")]

Init ==
  /\ shape \in {"one", "many"}
  /\ engine \in {"tar", "rar"}
  /\ \E s \in Starts : to = s[1] /\ fs = s[2]
  /\ opts \in [strip : 0..MaxStrip, filter : Filters, map : Maps]
  /\ pc = "start"
  /\ err = "none"
  /\ output_dir = NoPath
  /\ n = 0
  /\ files = <<>>
  /\ created = <<>>
  /\ last = NoEntry
  /\ rp = NoCall
  /\ sel = NoSelect

Started(p, e, dir, f) == [pc |-> p, err |-> e, output_dir |-> dir, fs |-> f]

\* `if !to.exists() { fs::create_dir_all(to)?; }`
EnsureOutputDir(f) ==
  IF ~Exists(f, to) THEN create_dir_all(f, to)
  ELSE [ok |-> TRUE, fs |-> f, made |-> {}]

\* The code of tar_extract before the loop: absolutize the output
\* directory, create it when it does not exist.  cwd_ok is false when
\* `to.absolutize()?` fails, the current directory being unavailable;
\* `fs::create_dir_all(to)?` fails by the tree.  Either failure returns
\* Err(Io) before any entry is read.
tar_begin(cwd_ok) ==
  IF ~cwd_ok THEN Started("err", "Io", output_dir, fs)
  ELSE The({
    IF ~mk.ok THEN Started("err", "Io", Absolutize(to), mk.fs)
    ELSE Started("run", "none", Absolutize(to), mk.fs)
    : mk \in {EnsureOutputDir(fs)}})

\* The code of Unrar::decompress before the loop: the same, with the
\* refusal to strip between the two calls.
rar_begin(cwd_ok) ==
  IF ~cwd_ok THEN Started("err", "Io", output_dir, fs)
  ELSE IF opts.strip /= 0 THEN Started("panic", "todo", Absolutize(to), fs)
  ELSE The({
    IF ~mk.ok THEN Started("err", "Io", Absolutize(to), mk.fs)
    ELSE Started("run", "none", Absolutize(to), mk.fs)
    : mk \in {EnsureOutputDir(fs)}})

\* The call runs up to its loop.
Begin ==
  /\ pc = "start"
  /\ \E cwd_ok \in BOOLEAN :
     \E r \in {IF engine = "tar" THEN tar_begin(cwd_ok) ELSE rar_begin(cwd_ok)} :
       /\ pc' = r.pc
       /\ err' = r.err
       /\ output_dir' = r.output_dir
       /\ fs' = r.fs
  /\ UNCHANGED <<shape, engine, to, opts, n, files, created, last, rp, sel>>

Take(r) ==
  /\ pc' = r.pc
  /\ err' = r.err
  /\ files' = r.files
  /\ fs' = r.fs
  /\ created' = r.created
  /\ last' = r.last
  /\ n' = n + 1
  /\ UNCHANGED <<shape, engine, to, opts, output_dir, rp, sel>>

\* The link names the header of an entry of this type may carry.
LinkChoices(typ) == IF typ = "Symlink" THEN LinkNames ELSE {<<>>}

\* Whether io::copy reads the data of an entry of this type to its end.
DataChoices(typ) == IF typ = "Regular" THEN BOOLEAN ELSE {TRUE}

\* Whether the mode of the written file of an entry of this type can be set
\* (or is not set, the mode of the header being unreadable).
PermChoices(typ) == IF typ = "Regular" THEN BOOLEAN ELSE {TRUE}

\* The archive holds one entry with any of the names, or up to MaxEntries
\* entries with names of SeqNames.
EntryLimit == IF shape = "one" THEN 1 ELSE MaxEntries

EntryNames == IF shape = "one" THEN Names ELSE SeqNames

\* The loop body of tar_extract for the next entry of the archive.
TarEntry ==
  /\ pc = "run" /\ engine = "tar" /\ n < EntryLimit
  /\ \E path \in EntryNames, typ \in EntryTypes :
     \E link_name \in LinkChoices(typ) :
     \E data_ok \in DataChoices(typ) :
     \E perm_ok \in PermChoices(typ) :
     \E filepath \in {Collect(Skip(Components(path), opts.strip))} :
     \E rel_path \in {IF typ = "Directory" THEN new_directory(filepath)
                      ELSE new_file(filepath)} :
     \E output_path \in {Join(output_dir, filepath)} :
     \E map_args \in {MapArgsNew(rel_path, output_path, output_dir)} :
     \E outpath \in {ApplyMap(map_args)} :
     \E r \in {tar_entry(path, typ, link_name, data_ok, perm_ok, filepath, rel_path,
                         output_path, map_args, outpath)} :
       Take(r)

\* The loop body of Unrar::decompress for the next header of the archive.
RarEntry ==
  /\ pc = "run" /\ engine = "rar" /\ n < EntryLimit
  /\ \E filename \in EntryNames, typ \in RarTypes :
     \E rel_path \in {IF typ = "Directory" THEN new_directory(filename)
                      ELSE new_file(filename)} :
     \E full_output_path \in {Join(output_dir, filename)} :
     \E map_args \in {MapArgsNew(rel_path, full_output_path, output_dir)} :
     \E output_path \in {ApplyMap(map_args)} :
     \E r \in {rar_entry(filename, typ, rel_path, full_output_path,
                         map_args, output_path)} :
       Take(r)

\* The archive reader fails (`entry?`, `check!(rar.read_header())`) when it
\* is asked for the next entry, the one after the last entry included.
ReadError ==
  /\ pc = "run"
  /\ pc' = "err"
  /\ err' = IF engine = "tar" THEN "Io" ELSE "Error"
  /\ UNCHANGED <<shape, engine, to, opts, output_dir, n, files, fs, created, last, rp, sel>>

\* The archive has no more entries: the call returns Ok(files).
Finish ==
  /\ pc = "run"
  /\ pc' = "ok"
  /\ UNCHANGED <<shape, engine, to, opts, err, output_dir, n, files, fs, created, last, rp, sel>>

Next == Begin \/ TarEntry \/ RarEntry \/ ReadError \/ Finish

Spec == Init /\ [][Next]_vars

(***************************************************************************)
(* SpecRel: the RelPath constructors applied to every name.                *)
(***************************************************************************)
Ctors == {"new_file", "new_directory", "new_guess_kind"}

Construct(ctor, path) ==
  IF ctor = "new_file" THEN new_file(path)
  ELSE IF ctor = "new_directory" THEN new_directory(path)
  ELSE new_guess_kind(path)

InitRel ==
  /\ shape = "one" /\ engine = "none" /\ to = NoPath /\ opts = [strip |-> 0, filter |-> "default", map |-> "default"]
  /\ pc = "rel" /\ err = "none" /\ output_dir = NoPath /\ n = 0 /\ files = <<>>
  /\ fs = InitFs /\ created = <<>> /\ last = NoEntry
  /\ rp \in [ctor : Ctors, path : Names, result : {RelErr("pending")}]
  /\ sel = NoSelect

RelPathCall ==
  /\ pc = "rel"
  /\ rp.result = RelErr("pending")
  /\ rp' = [rp EXCEPT !.result = Construct(rp.ctor, rp.path)]
  /\ UNCHANGED <<shape, engine, to, opts, pc, err, output_dir, n, files, fs, created, last, sel>>

NextRel == RelPathCall

SpecRel == InitRel /\ [][NextRel]_vars

(***************************************************************************)
(* SpecReg: the decompressor registry.  An archive's file name is the      *)
(* sequence of its dot-separated pieces (bare.tar.gz is bare, tar, gz); an  *)
(* adapter's pattern `(?i)\.tar\.gz$` is the sequence of pieces the name    *)
(* must end with, after a dot, whatever the case of the letters.            *)
(***************************************************************************)
MaxNamePieces == 3

Pieces == {"bare", "tar", "gz", "GZ", "tzz", "zip"}

ArchiveNames == UNION {[1..k -> Pieces] : k \in 1..MaxNamePieces}

\* What the content probe may report; "none" when it is inconclusive.
Mimes == {"none", "application/gzip", "application/vnd.rar"}

\* (?i): the lower-case form of a piece.
Lower(piece) == IF piece = "GZ" THEN "gz" ELSE piece

Adapter(id, pattern, mime) == [id |-> id, pattern |-> pattern, mime |-> mime]

\* Decompress::default(): the adapters of the default set, the tar.*
\* adapters before the bare single-stream ones.
DefaultRegistry ==
  <<Adapter("zip", <<"zip">>, "application/zip"),
    Adapter("tarball", <<"tar">>, "application/x-tar"),
    Adapter("targz", <<"tar", "gz">>, "application/gzip"),
    Adapter("tarxz", <<"tar", "xz">>, "application/x-xz"),
    Adapter("tarbz", <<"tar", "bz2">>, "application/x-bzip2"),
    Adapter("tarzst", <<"tar", "zst">>, "application/zstd"),
    Adapter("ar", <<"ar">>, "application/x-archive"),
    Adapter("gz", <<"gz">>, "application/gzip"),
    Adapter("bz2", <<"bz2">>, "application/x-bzip2"),
    Adapter("xz", <<"xz">>, "application/x-xz"),
    Adapter("zst", <<"zst">>, "application/zstd"),
    Adapter("rar", <<"rar">>, "application/vnd.rar")>>

\* The registry of test_custom: Targz with the pattern (?i)\.tzz$ alone.
CustomRegistry == <<Adapter("targz", <<"tzz">>, "application/gzip")>>

\* Decompressor::test: the adapter's pattern matches the file name.
Test(adapter, name) ==
  LET k == Len(adapter.pattern)
  IN /\ Len(name) > k
     /\ \A i \in 1..k : Lower(name[Len(name) - k + i]) = adapter.pattern[i]

\* Decompressor::test_mimetype.
TestMimetype(adapter, mime) == adapter.mime = mime

\* The adapter's detection rule: by content when detect_content is set and
\* the probe is conclusive, by file name otherwise.
Matches(adapter, name, detect_content, mime) ==
  IF detect_content /\ mime /= "none" THEN TestMimetype(adapter, mime)
  ELSE Test(adapter, name)

\* The last adapter that matches is taken.
LastMatch(registry, name, detect_content, mime) ==
  LET hits == {i \in 1..Len(registry) : Matches(registry[i], name, detect_content, mime)}
  IN IF hits = {} THEN "MissingCompressor"
     ELSE registry[CHOOSE i \in hits : \A j \in hits : j <= i].id

\* Decompress::decompress: the id of the first adapter, in registration
\* order, that matches; MissingCompressor when none does.
FirstMatch(registry, name, detect_content, mime) ==
  LET hits == {i \in 1..Len(registry) : Matches(registry[i], name, detect_content, mime)}
  IN IF hits = {} THEN "MissingCompressor"
     ELSE registry[CHOOSE i \in hits : \A j \in hits : i <= j].id

InitReg ==
  /\ shape = "one" /\ engine = "none" /\ to = NoPath /\ opts = [strip |-> 0, filter |-> "default", map |-> "default"]
  /\ pc = "reg" /\ err = "none" /\ output_dir = NoPath /\ n = 0 /\ files = <<>>
  /\ fs = InitFs /\ created = <<>> /\ last = NoEntry /\ rp = NoCall
  /\ sel \in [registry : {DefaultRegistry, CustomRegistry}, archive : ArchiveNames,
              detect_content : BOOLEAN, mime : Mimes, result : {"pending"}]

Decompress ==
  /\ pc = "reg"
  /\ sel.result = "pending"
  /\ sel' = [sel EXCEPT !.result =
               FirstMatch(sel.registry, sel.archive, sel.detect_content, sel.mime)]
  /\ UNCHANGED <<shape, engine, to, opts, pc, err, output_dir, n, files, fs, created, last, rp>>

NextReg == Decompress

SpecReg == InitReg /\ [][NextReg]_vars

(***************************************************************************)
(* Properties.                                                             *)
(***************************************************************************)
HasParentDir(p) == \E i \in 1..Len(Components(p)) : Components(p)[i] = ParentDir

\* p is the directory dir or lies below it, with no `..` on the way.
Inside(p, dir) ==
  /\ IsAbsolute(p)
  /\ ~HasParentDir(p)
  /\ Len(Components(dir)) <= Len(Components(p))
  /\ \A i \in 1..Len(Components(dir)) : Components(p)[i] = Components(dir)[i]

DefaultHooks == opts.filter = "default" /\ opts.map = "default"

\* C1: with the default filter and map, every path an extraction (tar_extract
\* or Unrar::decompress) creates or writes for an entry lies inside the
\* absolutized output directory, whatever the entry's name.
C1_WritesInsideOutputDir ==
  DefaultHooks => \A p \in last.wrote : Inside(p, output_dir)

\* The strings s1/s2/.../sn.
RECURSIVE SlashJoin(_)
SlashJoin(segs) ==
  IF segs = <<>> THEN <<>>
  ELSE IF Len(segs) = 1 THEN segs[1]
  ELSE segs[1] \o <<"/">> \o SlashJoin(Tail(segs))

\* The segments of a raw path after the first k.
SegmentsAfter(path, k) == SubSeq(Components(path), k + 1, Len(Components(path)))

\* The entry read last got as far as the hooks.
ReachedHooks(l) == l.calls /= <<>>

\* C2: in tar_extract, an entry whose path has exactly strip segments is
\* skipped entirely (nothing written, no hook called, nothing recorded, no
\* error), and the output path of any other entry is the output directory
\* joined with the entry's segments after the first strip ones.
C2_StripRemovesLeadingSegments ==
  [][(engine = "tar" /\ n' = n + 1) =>
       LET l == last'
           segs == SegmentsAfter(l.path, opts.strip)
       IN /\ Len(Components(l.path)) = opts.strip =>
               /\ l.outcome = "skipped" /\ l.calls = <<>> /\ l.wrote = {}
               /\ files' = files /\ fs' = fs /\ created' = created
               /\ pc' = "run" /\ err' = "none"
          /\ ReachedHooks(l) =>
               l.output_path = output_dir \o <<"/">> \o SlashJoin(segs)
          /\ (l.outcome = "file" /\ opts.map = "default") =>
               /\ files' = Append(files, output_dir \o <<"/">> \o SlashJoin(segs))
               /\ created' = Append(created, output_dir \o <<"/">> \o SlashJoin(segs))
               /\ l.wrote /= {}]_vars

\* C2 witness: with strip = 1, a two-segment entry was written and then a
\* one-segment entry was skipped.
C2_Witness ==
  /\ engine = "tar" /\ opts.strip = 1 /\ n = 2
  /\ Len(files) = 1
  /\ last.outcome = "skipped" /\ Len(Components(last.path)) = 1

\* C3: a directory or regular-file entry the filter rejects has no effect:
\* nothing is created, map is not called, nothing is recorded, and the
\* extraction goes on.
C3_FilteredEntryHasNoEffect ==
  [][(n' = n + 1 /\ last'.calls /= <<>> /\ last'.calls[1] = "filter"
        /\ opts.filter = "ends_with" /\ ~EndsWith(last'.output_path, FilterSuffix)) =>
       /\ last'.typ \in {"Directory", "Regular"}
       /\ last'.calls = <<"filter">>
       /\ last'.wrote = {}
       /\ files' = files /\ fs' = fs /\ created' = created
       /\ pc' = "run" /\ err' = "none"]_vars

\* C3 witness: after a file was written, a regular-file entry was rejected
\* by the filter.
C3_Witness ==
  /\ opts.filter = "ends_with" /\ n = 2 /\ Len(files) = 1
  /\ last.typ = "Regular" /\ last.calls = <<"filter">>
  /\ ~EndsWith(last.output_path, FilterSuffix)

\* C4: when map returns a path other than the computed output path of a
\* regular-file entry that passed the filter, the file and the directories
\* made for it are at the mapped path, nothing is written at the computed
\* path, and the mapped path is the one recorded.
C4_WrittenOnlyAtMappedPath ==
  (last.outcome = "file" /\ opts.map = "set_file_name") =>
    LET orig == last.output_path
        mapped == Push(Parent(orig), MapPrefix \o FileName(orig))
    IN /\ mapped /= orig
       /\ last.outpath = mapped
       /\ mapped \in last.wrote
       /\ orig \notin last.wrote
       /\ \A p \in last.wrote : p \in AncestorsOrSelf(mapped)
       /\ Norm(orig) \notin fs.regs
       /\ files /= <<>> /\ files[Len(files)] = mapped

\* C5: an entry that is neither a directory, a regular file nor a symlink
\* makes the whole call fail with the unsupported-entry-type error, returned
\* to the caller as an error value, and no file of the archive is written.
C5_UnsupportedEntryFailsWithError ==
  (engine = "tar" /\ last.typ = "Other") =>
    /\ pc = "err" /\ err = "UnsupportedEntryType"
    /\ created = <<>>

IsUnsafe(path) ==
  \/ HasRoot(path)
  \/ \E i \in 1..Len(Components(path)) : Components(path)[i] \in {CurDir, ParentDir}

\* C7: constructing a RelPath from a path with a root component, or with a
\* `.` or `..` component, returns an error (PathNotRelative for a root), and
\* every RelPath that is constructed has only non-empty normal segments.
C7_UnsafePathReturnsError ==
  (pc = "rel" /\ rp.result /= RelErr("pending")) =>
    /\ IsUnsafe(rp.path) => rp.result.tag = "Err"
    /\ HasRoot(rp.path) => rp.result = RelErr("PathNotRelative")
    /\ rp.result.tag = "Ok" =>
         \A i \in 1..Len(rp.result.parts) : IsNormal(rp.result.parts[i])

\* C8: for every strip value, an entry whose raw path has a root component
\* ends the extraction: tar_extract returns PathNotRelative, writes nothing
\* for the entry and reads no further entry.
C8_NonRelativeEntryIsTerminal ==
  (engine = "tar" /\ last.typ /= "none" /\ HasRoot(last.path)) =>
    /\ pc = "err" /\ err = "PathNotRelative"
    /\ last.wrote = {}

Count(c, x) == Cardinality({i \in DOMAIN c : c[i] = x})

\* The entry read last passed stripping and path validation.
PathAccepted ==
  \/ last.outcome \in {"filtered", "dir", "file", "symlink", "io"}
  \/ last.outcome = "panic" /\ err \in {"todo", "assert"}

\* The filter in use answers false for the entry read last.
FilterSaysNo ==
  /\ last.typ \in {"Directory", "Regular"}
  /\ opts.filter = "ends_with"
  /\ ~EndsWith(last.output_path, FilterSuffix)

\* The entry read last was skipped by stripping.
SkippedByStripping == last.outcome = "skipped"

\* C10 as the specification states it: for every entry, filter is called
\* once if the entry is a directory or a regular file that stripping did
\* not skip, and never otherwise, and before any write; map is called once
\* for every entry that was neither skipped nor rejected, after filter and
\* before any write, and never for a rejected entry.  It is taken on the
\* calls no panic unwinds, so that what refutes it is no panic.
C10_HooksCalledForEveryEntry ==
  (last.typ /= "none" /\ pc /= "panic") =>
    LET c == last.calls
    IN /\ Count(c, "filter") =
            IF ~SkippedByStripping /\ last.typ \in {"Directory", "Regular"} THEN 1 ELSE 0
       /\ Count(c, "map") = IF ~SkippedByStripping /\ ~FilterSaysNo THEN 1 ELSE 0
       /\ \A i, j \in DOMAIN c : (c[i] = "filter" /\ c[j] /= "filter") => i < j
       /\ \A i, j \in DOMAIN c : (c[i] = "map" /\ c[j] \notin {"filter", "map"}) => i < j
       /\ last.wrote /= {} => Count(c, "map") = 1

\* C10, amended: for every entry that stripping did not skip and whose
\* stripped path RelPath::new_directory / new_file accepted, filter is
\* called once if the entry is a directory or a regular file, and never
\* otherwise, and before any write; map is called once if filter did not
\* reject the entry, after filter and before any write, and never for a
\* rejected entry.  An entry that was skipped, or whose path was not
\* accepted, gets neither hook, and nothing is written for it.
C10_HooksCalledOnceInOrder ==
  last.typ /= "none" =>
    LET c == last.calls
    IN /\ Count(c, "filter") =
            IF PathAccepted /\ last.typ \in {"Directory", "Regular"} THEN 1 ELSE 0
       /\ Count(c, "map") = IF PathAccepted /\ ~FilterSaysNo THEN 1 ELSE 0
       /\ \A i, j \in DOMAIN c : (c[i] = "filter" /\ c[j] /= "filter") => i < j
       /\ \A i, j \in DOMAIN c : (c[i] = "map" /\ c[j] \notin {"filter", "map"}) => i < j
       /\ last.wrote /= {} => Count(c, "map") = 1

\* C10 witness: for a regular file, filter, map, the creation of the parent
\* directory, the creation of the file and the copy of its data happened in
\* this order.
C10_Witness ==
  last.calls = <<"filter", "map", "create_dir_all", "File::create", "io::copy">>

NameEndsWith(name, tail) ==
  /\ Len(name) > Len(tail)
  /\ \A i \in 1..Len(tail) : Lower(name[Len(name) - Len(tail) + i]) = tail[i]

\* C9: decompress reports the id of the first registered adapter whose
\* detection rule matches and fails with MissingCompressor when none does;
\* so without content detection the default registry routes every *.tar.gz
\* name to targz, never to gz, and the registry holding only Targz with the
\* pattern \.tzz$ takes a .tzz name and fails with MissingCompressor on a
\* .tar.gz name.
C9_FirstMatchingAdapterIsSelected ==
  (pc = "reg" /\ sel.result /= "pending") =>
    LET r == sel.registry
        hit(i) == Matches(r[i], sel.archive, sel.detect_content, sel.mime)
    IN /\ sel.result = "MissingCompressor" <=> \A i \in 1..Len(r) : ~hit(i)
       /\ sel.result /= "MissingCompressor" =>
            \E i \in 1..Len(r) :
              hit(i) /\ r[i].id = sel.result /\ \A j \in 1..(i - 1) : ~hit(j)
       /\ (~sel.detect_content /\ r = DefaultRegistry
             /\ NameEndsWith(sel.archive, <<"tar", "gz">>)) => sel.result = "targz"
       /\ (~sel.detect_content /\ r = CustomRegistry
             /\ NameEndsWith(sel.archive, <<"tzz">>)) => sel.result = "targz"
       /\ (~sel.detect_content /\ r = CustomRegistry
             /\ NameEndsWith(sel.archive, <<"tar", "gz">>)) =>
            sel.result = "MissingCompressor"

\* C9 witness: without content detection the default registry took
\* bare.tar.GZ, which the gz adapter matches too, as targz.
C9_Witness ==
  /\ pc = "reg" /\ ~sel.detect_content /\ sel.registry = DefaultRegistry
  /\ sel.archive = <<"bare", "tar", "GZ">>
  /\ Test(DefaultRegistry[8], sel.archive)
  /\ sel.result = "targz"

\* The iteration of tar_extract for an entry with this raw path, type, link
\* name, readability of its data and settability of its mode, from the
\* current state.
TarIteration(path, typ, link_name, data_ok, perm_ok) ==
  LET filepath == Collect(Skip(Components(path), opts.strip))
      rel_path == IF typ = "Directory" THEN new_directory(filepath)
                  ELSE new_file(filepath)
      output_path == Join(output_dir, filepath)
      map_args == MapArgsNew(rel_path, output_path, output_dir)
      outpath == ApplyMap(map_args)
  IN tar_entry(path, typ, link_name, data_ok, perm_ok, filepath, rel_path, output_path,
               map_args, outpath)

\* C11: on the same directory and regular-file entries and the same options,
\* Unrar::decompress does what tar_extract does: before its loop it ends
\* as tar_extract ends there (it starts extracting whatever the strip
\* value, or fails as tar_extract fails), and each of its iterations ends
\* as the iteration of tar_extract on that entry ends, with the same list
\* of written paths (directories not recorded) and the same files written.
\* The entries are the ones the rar steps are taken on: their data can be
\* read and the mode of their file can be set.  The lists are compared
\* where the call goes on and still has one to return.
C11_RarMatchesTar ==
  [][engine = "rar" =>
       /\ pc = "start" =>
            LET b == tar_begin(output_dir' /= NoPath)
            IN pc' = b.pc /\ err' = b.err /\ output_dir' = b.output_dir /\ fs' = b.fs
       /\ n' = n + 1 =>
            LET t == TarIteration(last'.path, last'.typ, <<>>, TRUE, TRUE)
            IN /\ pc' = t.pc
               /\ pc' = "run" => files' = t.files
               /\ fs'.regs = t.fs.regs]_vars

\* The RelPath that the iteration built for the entry read last.
LastRelPath ==
  IF last.typ = "Directory" THEN new_directory(last.filepath)
  ELSE new_file(last.filepath)

\* C12: whenever filter or map was called for an entry, whatever the strip
\* value and whether the output directory argument is relative or absolute,
\* the descriptor held an absolute output path, an absolute output root and
\* a relative RelPath of normal segments; no call ends in a failed
\* assertion of MapArgs::new.
C12_HookArgsAreAbsolute ==
  /\ err /= "assert"
  /\ last.calls /= <<>> =>
       /\ IsAbsolute(last.output_path)
       /\ IsAbsolute(output_dir)
       /\ LastRelPath.tag = "Ok"
       /\ IsRelative(LastRelPath.value)
       /\ \A i \in 1..Len(LastRelPath.parts) : IsNormal(LastRelPath.parts[i])

\* C12 witness: with the relative output directory argument `a` and one
\* leading component stripped, filter and map were called for an entry of
\* two components and its file was written.
C12_Witness ==
  /\ to = <<"a">> /\ opts.strip = 1
  /\ Len(Components(last.path)) = 2
  /\ last.outcome = "file"
  /\ Count(last.calls, "filter") = 1 /\ Count(last.calls, "map") = 1

====
